---- MODULE Spec2Model ----
(***************************************************************************)
(* FlowTalk: the translation orchestrator (TranslationEngineImpl), the     *)
(* message store (MongoMessageService) and the /api/messages route         *)
(* handlers, as state machines over the awaits of the TypeScript source.   *)
(***************************************************************************)
EXTENDS Integers, Sequences, FiniteSets, TLC

\* ------------------------------------------------------------------ bounds
MaxMessages == 1
MaxRuns == 2
MaxPosts == 1
MaxGets == 2

\* TranslationCacheImpl: the constructor's maxEntries and ttl, the span of the
\* clock, and the number of get calls.
maxEntries == 2
ttl == 2
MaxTime == 3
MaxRequests == 3
\* Segments a text is put together from.
MaxSegments == 4
\* Messages in the channel, and translations held by one of them.
MaxChannel == 3
MaxTranslations == 2
\* Requests to POST /messages/reactions, and createConversation calls.
MaxReactionRequests == 3
MaxConvRequests == 2
\* Entries handed to one bulk cache call.
MaxBulk == 2

Messages == 1..MaxMessages
Runs == 1..MaxRuns
Posts == 1..MaxPosts
Gets == 1..MaxGets

\* --------------------------------------------------------------- constants
\* The language codes the model draws from: three supported ones and "xx",
\* a code that is not a key of SUPPORTED_LANGUAGES.
SUPPORTED_LANGUAGES == {"en", "es", "fr"}
LanguageCodes == SUPPORTED_LANGUAGES \cup {"xx"}
SourceLanguages == {"en", "es"}
MESSAGE_STATUS == {"sent", "translating", "translated", "failed"}

\* Message contents: plain prose in two spellings that differ in case only,
\* and a text holding the forbidden pattern /javascript:/gi at index 0 (the
\* match ends at index 11).
Contents == {"Hello", "hello", "javascript:x"}
ForbiddenMatchEnd(content) == IF content = "javascript:x" THEN 11 ELSE 0
ContentLength(content) == IF content = "javascript:x" THEN 12 ELSE 5

\* MessageParser grammar: maxLength
maxLength == 4000
\* getChannelMessages: .limit(Math.min(limit, 100))
QUERY_CAP == 100

\* The target-language lists a caller hands to translateMessage.
TargetLists == {{}, {"xx"}, {"es", "fr"}, {"es", "xx"}}

\* The users collection: the members of the channel's community and their
\* primaryLanguage.
Users == {"u1", "u2", "u3"}
PrimaryLanguage(u) == IF u = "u1" THEN "en" ELSE "es"

VARIABLES
  messages,    \* the messages collection: one document per id
  cache,       \* the translation cache: <<content, lang>> -> value or NoValue
  apiKey,      \* TranslationEngineImpl.apiKey is configured
  lastIndex,   \* lastIndex of the global forbidden pattern of messageParser
  tmPc,        \* per translateMessage run: where it stands
  tmArgs,      \* per run: messageId and targetLanguages
  tmMsg,       \* per run: the message as loaded by getMessageById
  tmRes,       \* per run: the per-target results of the fan-out
  tmOutcome,   \* per run: "ok" or the error the promise rejects with
  postPc,      \* per POST /messages request: where it stands
  postArgs,    \* per POST: the message created and its target languages
  postRes,     \* per POST: the translation obtained for each target
  getPc,       \* per GET /messages request: where it stands
  getUser,     \* per GET: the viewer
  getTask,     \* per GET: per message, the state of its lazy translation
  postOut,     \* per POST: the response sent, "none" before
  tcEntries,   \* TranslationCacheImpl.cache: the Map, in insertion order
  tcStats,     \* TranslationCacheImpl.stats: hits and misses
  tcNow,       \* Date.now()
  tcRet,       \* the last cache operation and what it returned
  mpPc,        \* the parser round trip: where it stands
  mpParsed,    \* the ParsedMessage of the text
  mpMasked,    \* getTranslatableContent of it
  mpRestored,  \* restoreAllCode of the masked text
  chDocs,      \* the messages collection of one channel
  qRet,        \* the last channel read and what it returned
  rxReactions, \* message.reactions of one message
  rxPc,        \* per POST /messages/reactions request: where it stands
  rxEmoji,     \* per request: the emoji posted
  rxSeen,      \* per request: the user's existing reaction as read
  rxOut,       \* per request: the action answered, "none" before
  conversations, \* the conversations collection, in insertion order
  ccPc,        \* per createConversation call: where it stands
  ccArgs       \* per call: the sorted participants

storeVars == <<messages>>
engineVars == <<cache, apiKey, lastIndex, tmPc, tmArgs, tmMsg, tmRes, tmOutcome>>
routeVars == <<postPc, postArgs, postRes, getPc, getUser, getTask, postOut>>
implVars == <<tcEntries, tcStats, tcNow, tcRet>>
coreVars == <<storeVars, engineVars, routeVars, implVars>>
parserVars == <<mpPc, mpParsed, mpMasked, mpRestored>>
queryVars == <<chDocs, qRet>>
reactionVars == <<rxReactions, rxPc, rxEmoji, rxSeen, rxOut>>
convVars == <<conversations, ccPc, ccArgs>>
restVars == <<parserVars, queryVars, reactionVars, convVars>>
vars == <<messages, cache, apiKey, lastIndex, tmPc, tmArgs, tmMsg, tmRes, tmOutcome,
          postPc, postArgs, postRes, getPc, getUser, getTask, postOut,
          tcEntries, tcStats, tcNow, tcRet, restVars>>

NoValue == <<>>
NoDoc == [doc |-> "absent", status |-> "none", content |-> "", sourceLanguage |-> "",
          senderId |-> "", translations |-> <<>>]
NoArgs == [messageId |-> 0, targetLanguages |-> {}]
NoPost == [messageId |-> 0, targets |-> {}]
NoMsg == [found |-> FALSE, content |-> "", sourceLanguage |-> ""]
Pending == [st |-> "calling", translation |-> NoValue, fromCache |-> FALSE]

\* TranslationCacheImpl.normalizeContent: trimmed, whitespace collapsed,
\* lower case.
normalizeContent(content) == IF content = "Hello" THEN "hello" ELSE content

\* generateKey: the hash of the normalized content and the target language.
generateKey(content, targetLang) == <<normalizeContent(content), targetLang>>

CacheKeys == {generateKey(c, L) : c \in Contents, L \in LanguageCodes}

\* --------------------------------------------------------- message store

Stored(m) == messages[m].doc = "stored"

\* MongoMessageService.createMessage: the document inserted.
NewMessageDoc(content, senderId, sourceLanguage) ==
  [doc |-> "stored", status |-> "sent", content |-> content,
   sourceLanguage |-> sourceLanguage, senderId |-> senderId, translations |-> <<>>]

\* MongoMessageService.updateMessageStatus: updateOne({_id}, {$set: {status}}),
\* whatever the current status; a missing document matches nothing.
updateMessageStatus(msgs, m, status) ==
  IF m \in Messages /\ msgs[m].doc = "stored"
  THEN [msgs EXCEPT ![m].status = status]
  ELSE msgs

\* createMessage called directly on the service (language supplied or detected).
CreateMessage(m, content, senderId, lang) ==
  /\ messages[m].doc = "absent"
  /\ \A k \in Messages : k < m => messages[k].doc # "absent"
  /\ messages' = [messages EXCEPT ![m] = NewMessageDoc(content, senderId, lang)]
  /\ UNCHANGED <<engineVars, routeVars, implVars, restVars>>

\* updateMessageStatus called directly on the service.
UpdateMessageStatus(m, status) ==
  /\ Stored(m)
  /\ messages' = updateMessageStatus(messages, m, status)
  /\ UNCHANGED <<engineVars, routeVars, implVars, restVars>>

\* A deleted document: its id is never used again. The fields that never
\* change while it is stored are kept, for the requests that read them before.
DeletedDoc(d) == [d EXCEPT !.doc = "deleted", !.status = "none", !.translations = <<>>]

\* MongoMessageService.deleteMessage.
DeleteMessage(m) ==
  /\ Stored(m)
  /\ messages' = [messages EXCEPT ![m] = DeletedDoc(@)]
  /\ UNCHANGED <<engineVars, routeVars, implVars, restVars>>

\* ------------------------------------------------------- message parser

\* RegExp.prototype.test on a /g pattern: the search starts at lastIndex.
PatternTest(content, li) ==
  li <= ContentLength(content) /\ ForbiddenMatchEnd(content) > li
PatternLastIndexAfter(content, li) ==
  IF PatternTest(content, li) THEN ForbiddenMatchEnd(content) ELSE 0
\* MessageParser.parse(...).isValid
ParseIsValid(content, li) == ~PatternTest(content, li)

\* ------------------------------------------------------------- the cache

\* The cache as translateMessage sees it: get returns the value or null.
CacheGet(c, content, lang) == c[generateKey(content, lang)]
CacheSet(c, content, lang, value) == [c EXCEPT ![generateKey(content, lang)] = value]

\* TranslationEngineImpl.clearCache: every entry leaves the cache.
ClearCache ==
  /\ \E k \in CacheKeys : cache[k] # NoValue
  /\ cache' = [k \in CacheKeys |-> NoValue]
  /\ UNCHANGED <<messages, apiKey, lastIndex, tmPc, tmArgs, tmMsg, tmRes, tmOutcome, routeVars, implVars, restVars>>

\* ------------------------------------------------- TranslationCacheImpl

\* One key more than the cache holds.
TcKeys == 1..(maxEntries + 1)
TcValues == {"v1", "v2"}
Null == "null"

\* The keys of the Map, and the position of a key in it (0 when absent).
TcKeySet(entries) == {entries[i].key : i \in DOMAIN entries}
TcIndex(entries, key) ==
  IF key \in TcKeySet(entries)
  THEN CHOOSE i \in DOMAIN entries : entries[i].key = key
  ELSE 0

\* Map.delete for every key of a set; the others keep their order.
TcRemove(entries, keys) == SelectSeq(entries, LAMBDA e : e.key \notin keys)

\* An entry that lives as long as it is read: expiry counted from lastAccessed.
isExpired_SinceAccess(entry, now) == (now - entry.lastAccessed) > ttl

\* isExpired: (now - entry.timestamp) > this.ttl
isExpired(entry, now) == (now - entry.timestamp) > ttl

\* Eviction of the entry inserted first (smallest timestamp).
evictLeastRecentlyUsed_Oldest(entries) ==
  IF entries = <<>> THEN entries
  ELSE LET i == CHOOSE i \in DOMAIN entries :
                  /\ \A j \in DOMAIN entries : entries[i].timestamp <= entries[j].timestamp
                  /\ \A j \in 1..(i - 1) : entries[j].timestamp > entries[i].timestamp
       IN TcRemove(entries, {entries[i].key})

\* evictLeastRecentlyUsed: the loop keeps the first entry, in the Map's order,
\* whose lastAccessed is below every one before it; that entry is deleted.
evictLeastRecentlyUsed(entries) ==
  IF entries = <<>> THEN entries
  ELSE LET i == CHOOSE i \in DOMAIN entries :
                  /\ \A j \in DOMAIN entries : entries[i].lastAccessed <= entries[j].lastAccessed
                  /\ \A j \in 1..(i - 1) : entries[j].lastAccessed > entries[i].lastAccessed
       IN TcRemove(entries, {entries[i].key})

\* get, line 78: this.stats.hits++
HitStats(stats) == [stats EXCEPT !.hits = @ + 1]

\* get, lines 62 and 69: this.stats.misses++
MissStats(stats) == [stats EXCEPT !.misses = @ + 1]

\* The share of the misses in place of the share of the hits.
HitRate_MissRate(stats) ==
  LET total == stats.hits + stats.misses
  IN IF total > 0 THEN (2 * stats.misses * 10000 + total) \div (2 * total) ELSE 0

\* getStats().hitRate, in hundredths of a percent:
\* Math.round((hits / total) * 100 * 100) / 100.
HitRate(stats) ==
  LET total == stats.hits + stats.misses
  IN IF total > 0 THEN (2 * stats.hits * 10000 + total) \div (2 * total) ELSE 0

\* get(key).
TcGet(key) ==
  /\ tcStats.hits + tcStats.misses < MaxRequests
  /\ LET i == TcIndex(tcEntries, key)
     IN IF i = 0
        THEN /\ tcStats' = MissStats(tcStats)
             /\ tcRet' = [op |-> "get", key |-> key, value |-> Null, how |-> "miss"]
             /\ UNCHANGED tcEntries
        ELSE IF isExpired(tcEntries[i], tcNow)
        THEN /\ tcEntries' = TcRemove(tcEntries, {key})
             /\ tcStats' = MissStats(tcStats)
             /\ tcRet' = [op |-> "get", key |-> key, value |-> Null, how |-> "expired"]
        ELSE /\ tcEntries' = [tcEntries EXCEPT ![i].lastAccessed = tcNow]
             /\ tcStats' = HitStats(tcStats)
             /\ tcRet' = [op |-> "get", key |-> key, value |-> tcEntries[i].value,
                          how |-> "hit"]
  /\ UNCHANGED <<tcNow, storeVars, engineVars, routeVars, restVars>>

\* set(key, value).
TcSet(key, value) ==
  /\ LET full == Len(tcEntries) >= maxEntries /\ key \notin TcKeySet(tcEntries)
         room == IF full THEN evictLeastRecentlyUsed(tcEntries) ELSE tcEntries
         entry == [key |-> key, value |-> value, timestamp |-> tcNow, lastAccessed |-> tcNow]
         i == TcIndex(room, key)
     IN /\ tcEntries' = IF i = 0 THEN Append(room, entry) ELSE [room EXCEPT ![i] = entry]
        /\ tcRet' = [op |-> "set", key |-> key, value |-> value,
                     how |-> IF full THEN "evicted" ELSE "stored"]
  /\ UNCHANGED <<tcStats, tcNow, storeVars, engineVars, routeVars, restVars>>

\* cleanup(): every expired entry is deleted.
TcCleanup ==
  /\ tcEntries' = SelectSeq(tcEntries, LAMBDA e : ~isExpired(e, tcNow))
  /\ tcRet' = [op |-> "cleanup", key |-> 0, value |-> Null, how |-> ""]
  /\ UNCHANGED <<tcStats, tcNow, storeVars, engineVars, routeVars, restVars>>

\* delete(key).
TcDelete(key) ==
  /\ key \in TcKeySet(tcEntries)
  /\ tcEntries' = TcRemove(tcEntries, {key})
  /\ tcRet' = [op |-> "delete", key |-> key, value |-> Null, how |-> ""]
  /\ UNCHANGED <<tcStats, tcNow, storeVars, engineVars, routeVars, restVars>>

\* clear(): the Map is emptied and the statistics start again.
TcClear ==
  /\ tcEntries' = <<>>
  /\ tcStats' = [hits |-> 0, misses |-> 0]
  /\ tcRet' = [op |-> "clear", key |-> 0, value |-> Null, how |-> ""]
  /\ UNCHANGED <<tcNow, storeVars, engineVars, routeVars, restVars>>

\* Time passes.
TcTick ==
  /\ tcNow < MaxTime
  /\ tcNow' = tcNow + 1
  /\ UNCHANGED <<tcEntries, tcStats, tcRet, storeVars, engineVars, routeVars, restVars>>

\* ------------------------------------- TranslationCacheImpl: the bulk calls

\* The Map after set(key, value) at time now.
MapAfterSet(entries, key, value, now) ==
  LET full == Len(entries) >= maxEntries /\ key \notin TcKeySet(entries)
      room == IF full THEN evictLeastRecentlyUsed(entries) ELSE entries
      entry == [key |-> key, value |-> value, timestamp |-> now, lastAccessed |-> now]
      i == TcIndex(room, key)
  IN IF i = 0 THEN Append(room, entry) ELSE [room EXCEPT ![i] = entry]

\* for (const [key, value] of entries.entries()) await this.set(key, value)
RECURSIVE MapAfterSets(_, _, _)
MapAfterSets(entries, pairs, now) ==
  IF pairs = <<>> THEN entries
  ELSE MapAfterSets(MapAfterSet(entries, pairs[1].key, pairs[1].value, now), Tail(pairs), now)

\* importData: every item that has not expired goes into the Map with
\* this.cache.set(key, entry), under its own timestamp.
RECURSIVE MapAfterImport(_, _, _)
MapAfterImport(entries, items, now) ==
  IF items = <<>> THEN entries
  ELSE LET item == items[1]
           entry == [key |-> item.key, value |-> item.value,
                     timestamp |-> item.timestamp, lastAccessed |-> now]
           i == TcIndex(entries, item.key)
           next == IF (now - item.timestamp) <= ttl
                   THEN IF i = 0 THEN Append(entries, entry) ELSE [entries EXCEPT ![i] = entry]
                   ELSE entries
       IN MapAfterImport(next, Tail(items), now)

\* The Maps and exported objects handed to the bulk calls: up to MaxBulk
\* entries, the keys distinct.
DistinctKeys(s) == \A i \in DOMAIN s : \A j \in DOMAIN s : i # j => s[i].key # s[j].key
SeqsUpTo(S, n) == UNION {[1..k -> S] : k \in 1..n}
BulkMaps == {s \in SeqsUpTo([key : TcKeys, value : {"v1"}], MaxBulk) : DistinctKeys(s)}
ExportedData(now) ==
  {s \in SeqsUpTo([key : TcKeys, value : {"v1"}, timestamp : 0..now], MaxBulk) : DistinctKeys(s)}

\* setMultiple(entries)
TcSetMultiple(pairs) ==
  /\ tcEntries' = MapAfterSets(tcEntries, pairs, tcNow)
  /\ tcRet' = [op |-> "setMultiple", key |-> 0, value |-> Null, how |-> ""]
  /\ UNCHANGED <<tcStats, tcNow, storeVars, engineVars, routeVars, restVars>>

\* warmUp(commonTranslations)
TcWarmUp(pairs) ==
  /\ tcEntries' = MapAfterSets(tcEntries, pairs, tcNow)
  /\ tcRet' = [op |-> "warmUp", key |-> 0, value |-> Null, how |-> ""]
  /\ UNCHANGED <<tcStats, tcNow, storeVars, engineVars, routeVars, restVars>>

\* importData(data)
TcImportData(items) ==
  /\ tcEntries' = MapAfterImport(tcEntries, items, tcNow)
  /\ tcRet' = [op |-> "importData", key |-> 0, value |-> Null, how |-> ""]
  /\ UNCHANGED <<tcStats, tcNow, storeVars, engineVars, routeVars, restVars>>

\* ------------------------------------------------------ translateMessage

\* Texts are triples <<kind, target, content>>: the content itself, what the
\* external translator returns for it and a target, what the phrase table
\* of the route makes of it, and the content prefixed with "[TARGET] ".
Original(content) == <<"original", "", content>>
Translated(content, lang) == <<"api", lang, content>>
PhraseTranslated(content, lang) == <<"phrase", lang, content>>
Tagged(content, lang) == <<"tagged", lang, content>>

ValidLanguages(targetLanguages) == targetLanguages \cap SUPPORTED_LANGUAGES

\* The emptiness check of line 48 left out.
NoValidLanguages_Unchecked(valid) == FALSE

\* Line 48: validLanguages.length === 0
NoValidLanguages(valid) == valid = {}

Active(r) == tmPc[r] \notin {"idle", "done"}

\* Line 35: updateMessageStatus(messageId, 'translating').
TM_Begin(r, m, targetLanguages) ==
  /\ tmPc[r] = "idle"
  /\ \A k \in Runs : k < r => tmPc[k] # "idle"
  /\ messages[m].doc # "absent"
  /\ messages' = updateMessageStatus(messages, m, "translating")
  /\ tmPc' = [tmPc EXCEPT ![r] = "load"]
  /\ tmArgs' = [tmArgs EXCEPT ![r] = [messageId |-> m, targetLanguages |-> targetLanguages]]
  /\ UNCHANGED <<cache, apiKey, lastIndex, tmMsg, tmRes, tmOutcome, routeVars, implVars, restVars>>

\* Lines 38-50: getMessageById, then the filter on SUPPORTED_LANGUAGES.
TM_Load(r) ==
  /\ tmPc[r] = "load"
  /\ LET m == tmArgs[r].messageId
         valid == ValidLanguages(tmArgs[r].targetLanguages)
     IN IF ~Stored(m) \/ NoValidLanguages(valid)
        THEN /\ tmPc' = [tmPc EXCEPT ![r] = "catch"]
             /\ tmOutcome' = [tmOutcome EXCEPT ![r] = "ValidationError"]
             /\ UNCHANGED tmMsg
        ELSE /\ tmPc' = [tmPc EXCEPT ![r] = "fanout"]
             /\ tmMsg' = [tmMsg EXCEPT ![r] =
                  [found |-> TRUE, content |-> messages[m].content,
                   sourceLanguage |-> messages[m].sourceLanguage]]
             /\ UNCHANGED tmOutcome
  /\ UNCHANGED <<messages, cache, apiKey, lastIndex, tmArgs, tmRes, routeVars, implVars, restVars>>

\* Lines 58-79: parse, then every target's cache lookup (all of them run
\* before the first await of the map callback yields).
TM_FanOut(r) ==
  /\ tmPc[r] = "fanout"
  /\ LET content == tmMsg[r].content
         valid == ValidLanguages(tmArgs[r].targetLanguages)
     IN /\ lastIndex' = PatternLastIndexAfter(content, lastIndex)
        /\ IF ~ParseIsValid(content, lastIndex)
           THEN /\ tmPc' = [tmPc EXCEPT ![r] = "catch"]
                /\ tmOutcome' = [tmOutcome EXCEPT ![r] = "ValidationError"]
                /\ UNCHANGED tmRes
           ELSE /\ tmPc' = [tmPc EXCEPT ![r] = "targets"]
                /\ tmRes' = [tmRes EXCEPT ![r] =
                     [L \in valid |->
                        IF CacheGet(cache, content, L) # NoValue
                        THEN [st |-> "ok", translation |-> CacheGet(cache, content, L),
                              fromCache |-> TRUE]
                        ELSE Pending]]
                /\ UNCHANGED tmOutcome
  /\ UNCHANGED <<messages, cache, apiKey, tmArgs, tmMsg, routeVars, implVars, restVars>>

Failed(content) == [st |-> "err", translation |-> Original(content), fromCache |-> FALSE]
Fresh(text) == [st |-> "ok", translation |-> text, fromCache |-> FALSE]

\* translateText (lines 147-190): what a call can come to. Without an API key
\* it throws; for equal languages the text comes back; otherwise the external
\* service answers or the call throws a TranslationError.
Thrown == <<"TranslationError", "", "">>
TranslateTextOutcomes(hasKey, content, sourceLang, targetLang) ==
  IF ~hasKey THEN {Thrown}
  ELSE IF sourceLang = targetLang THEN {Original(content)}
  ELSE {Translated(content, targetLang), Thrown}

\* TRANSLATION_CONFIG.MAX_RETRIES
MAX_RETRIES == 3

\* The calls one translateText makes to the external service (lines 160-183):
\* none without an API key or for equal languages, otherwise the one
\* localizeText call; no line reads MAX_RETRIES and nothing loops.
ExternalAttempts(hasKey, sourceLang, targetLang) ==
  IF ~hasKey \/ sourceLang = targetLang THEN 0 ELSE 1

\* Lines 82-104 for one target: translateText, restore, cacheTranslation; an
\* error of any of them is caught and becomes the target's error result.
TM_Target(r, L) ==
  /\ tmPc[r] = "targets"
  /\ L \in DOMAIN tmRes[r]
  /\ tmRes[r][L].st = "calling"
  /\ LET content == tmMsg[r].content
     IN \E o \in TranslateTextOutcomes(apiKey, content, tmMsg[r].sourceLanguage, L) :
          IF o = Thrown
          THEN /\ tmRes' = [tmRes EXCEPT ![r][L] = Failed(content)]
               /\ UNCHANGED cache
          ELSE /\ tmRes' = [tmRes EXCEPT ![r][L] = Fresh(o)]
               /\ cache' = CacheSet(cache, content, L, o)
  /\ UNCHANGED <<messages, apiKey, lastIndex, tmPc, tmArgs, tmMsg, tmOutcome, routeVars, implVars, restVars>>

\* Lines 110-112: the number of fulfilled results without an error.
SuccessCount(res) == Cardinality({L \in DOMAIN res : res[L].st = "ok"})

\* Any failed target counted as a failure of the whole run.
AllFailed_AnyFailed(res) == \E L \in DOMAIN res : res[L].st = "err"

\* Lines 114-116: all targets failed.
AllFailed(res) == SuccessCount(res) = 0

\* Lines 107-119: after Promise.allSettled, throw or mark translated.
TM_Settle(r) ==
  /\ tmPc[r] = "targets"
  /\ \A L \in DOMAIN tmRes[r] : tmRes[r][L].st # "calling"
  /\ IF AllFailed(tmRes[r])
     THEN /\ tmPc' = [tmPc EXCEPT ![r] = "catch"]
          /\ tmOutcome' = [tmOutcome EXCEPT ![r] = "TranslationError"]
          /\ UNCHANGED messages
     ELSE /\ messages' = updateMessageStatus(messages, tmArgs[r].messageId, "translated")
          /\ tmPc' = [tmPc EXCEPT ![r] = "done"]
          /\ tmOutcome' = [tmOutcome EXCEPT ![r] = "ok"]
  /\ UNCHANGED <<cache, apiKey, lastIndex, tmArgs, tmMsg, tmRes, routeVars, implVars, restVars>>

\* The status the catch block writes (line 123).
CatchStatus == "sent"

\* Lines 121-125: the catch block writes the status and rethrows.
TM_Catch(r) ==
  /\ tmPc[r] = "catch"
  /\ messages' = updateMessageStatus(messages, tmArgs[r].messageId, CatchStatus)
  /\ tmPc' = [tmPc EXCEPT ![r] = "done"]
  /\ UNCHANGED <<cache, apiKey, lastIndex, tmArgs, tmMsg, tmRes, tmOutcome, routeVars, implVars, restVars>>

\* Lines 58-98 run to the end for a message that is not among Messages (one
\* of another channel), with the one target L: its parse, its cache miss, its
\* translateText that succeeds and its cacheTranslation. The engine, the
\* parser and the cache are singletons, so this is what the run leaves behind.
\* The messages elsewhere hold no forbidden pattern.
TM_Elsewhere(content, sourceLang, L) ==
  /\ ForbiddenMatchEnd(content) = 0
  /\ ParseIsValid(content, lastIndex)
  /\ CacheGet(cache, content, L) = NoValue
  /\ \E o \in TranslateTextOutcomes(apiKey, content, sourceLang, L) \ {Thrown} :
       cache' = CacheSet(cache, content, L, o)
  /\ lastIndex' = PatternLastIndexAfter(content, lastIndex)
  /\ UNCHANGED <<messages, apiKey, tmPc, tmArgs, tmMsg, tmRes, tmOutcome, routeVars, implVars, restVars>>

\* ------------------------------------------------- the /api/messages route

\* performContextBasedTranslation: the phrase table knows "hello", matched
\* without regard to case, for the targets es and fr (it has no English
\* entry); a text it does not change comes back as "[TARGET] text" (lines
\* 657-661).
InPhraseTable(content, targetLanguage) ==
  content \in {"Hello", "hello"} /\ targetLanguage \in {"es", "fr"}
performContextBasedTranslation(content, targetLanguage) ==
  IF InPhraseTable(content, targetLanguage)
  THEN PhraseTranslated(content, targetLanguage)
  ELSE Tagged(content, targetLanguage)

\* getEnhancedTranslation: the content as it is when the language detected
\* for it (the message's sourceLanguage, the same detector on the same text)
\* is the target; the phrase table otherwise.
getEnhancedTranslation(content, sourceLanguage, targetLanguage) ==
  IF sourceLanguage = targetLanguage
  THEN Original(content)
  ELSE performContextBasedTranslation(content, targetLanguage)

\* The try/catch of both handlers: translateText, and on its error
\* getEnhancedTranslation.
RouteTranslations(hasKey, content, sourceLanguage, targetLanguage) ==
  {IF o = Thrown THEN getEnhancedTranslation(content, sourceLanguage, targetLanguage) ELSE o :
     o \in TranslateTextOutcomes(hasKey, content, sourceLanguage, targetLanguage)}

\* POST lines 217-226: the members' languages without the message's own.
TargetLanguages(sourceLanguage) ==
  {PrimaryLanguage(u) : u \in Users} \ {sourceLanguage}

RECURSIVE TranslationList(_, _)
\* POST lines 248-252, 261: one Translation per target, as an array.
TranslationList(res, langs) ==
  IF langs = {} THEN <<>>
  ELSE LET L == CHOOSE x \in langs : TRUE
       IN <<[targetLanguage |-> L, translatedContent |-> res[L]]>>
            \o TranslationList(res, langs \ {L})

HasTranslation(doc, lang) ==
  \E i \in DOMAIN doc.translations : doc.translations[i].targetLanguage = lang

\* POST lines 192-226: createMessage, then the channel, its community and the
\* members' languages; without a channel or community the request ends here.
POST_Create(p, u, content, lang, channelFound) ==
  /\ postPc[p] = "idle"
  /\ \A k \in Posts : k < p => postPc[k] # "idle"
  /\ \E m \in Messages :
       /\ messages[m].doc = "absent"
       /\ \A k \in Messages : k < m => messages[k].doc # "absent"
       /\ messages' = [messages EXCEPT ![m] = NewMessageDoc(content, u, lang)]
       /\ LET targets == IF channelFound THEN TargetLanguages(lang) ELSE {}
          IN /\ postArgs' = [postArgs EXCEPT ![p] = [messageId |-> m, targets |-> targets]]
             /\ postRes' = [postRes EXCEPT ![p] = [L \in targets |-> NoValue]]
             /\ postPc' = [postPc EXCEPT ![p] = IF targets = {} THEN "done" ELSE "translating"]
             /\ postOut' = [postOut EXCEPT ![p] = IF targets = {} THEN "message" ELSE @]
  /\ UNCHANGED <<engineVars, getPc, getUser, getTask, implVars, restVars>>

\* POST lines 233-257: one target's translation arrives.
POST_Translate(p, L) ==
  /\ postPc[p] = "translating"
  /\ L \in DOMAIN postRes[p]
  /\ postRes[p][L] = NoValue
  /\ LET d == messages[postArgs[p].messageId]
     IN \E v \in RouteTranslations(apiKey, d.content, d.sourceLanguage, L) :
          postRes' = [postRes EXCEPT ![p][L] = v]
  /\ UNCHANGED <<messages, engineVars, postPc, postArgs, getPc, getUser, getTask, postOut, implVars, restVars>>

\* The targets of a POST for which translateText failed: what the request
\* holds for them came from getEnhancedTranslation.
FailedTargets(res) == {L \in DOMAIN res : res[L] # NoValue /\ res[L][1] # "api"}

\* A response that reports the translation failure instead of the message.
PostResponse_ErrorOnFailure(res) ==
  IF FailedTargets(res) # {} THEN "error" ELSE "message"

\* POST line 274: the response after the translation block, whatever the
\* block did (its own catch, lines 268-271, swallows every error).
PostResponse(res) == "message"

\* POST lines 260-267: $set translations to the array of this request.
POST_Store(p) ==
  /\ postPc[p] = "translating"
  /\ \A L \in DOMAIN postRes[p] : postRes[p][L] # NoValue
  /\ LET m == postArgs[p].messageId
     IN messages' =
          IF Stored(m)
          THEN [messages EXCEPT ![m].translations =
                  TranslationList(postRes[p], DOMAIN postRes[p])]
          ELSE messages
  /\ postPc' = [postPc EXCEPT ![p] = "done"]
  /\ postOut' = [postOut EXCEPT ![p] = PostResponse(postRes[p])]
  /\ UNCHANGED <<engineVars, postArgs, postRes, getPc, getUser, getTask, implVars, restVars>>

\* GET lines 78-98: getChannelMessagesForUser; a message of the viewer's own,
\* or one that came with a translation for the viewer's language, is done.
GET_Fetch(g, u) ==
  /\ getPc[g] = "idle"
  /\ \A k \in Gets : k < g => getPc[k] # "idle"
  /\ \E m \in Messages : Stored(m)
  /\ getPc' = [getPc EXCEPT ![g] = "running"]
  /\ getUser' = [getUser EXCEPT ![g] = u]
  /\ getTask' = [getTask EXCEPT ![g] =
       [m \in {k \in Messages : Stored(k)} |->
          IF messages[m].senderId = u \/ HasTranslation(messages[m], PrimaryLanguage(u))
          THEN [st |-> "done", value |-> NoValue]
          ELSE [st |-> "check", value |-> NoValue]]]
  /\ UNCHANGED <<messages, engineVars, postPc, postArgs, postRes, postOut, implVars, restVars>>

\* GET lines 101-114: the document is read again for a stored translation.
GET_Check(g, m) ==
  /\ getPc[g] = "running"
  /\ m \in DOMAIN getTask[g]
  /\ getTask[g][m].st = "check"
  /\ getTask' = [getTask EXCEPT ![g][m].st =
       IF Stored(m) /\ HasTranslation(messages[m], PrimaryLanguage(getUser[g]))
       THEN "done" ELSE "translate"]
  /\ UNCHANGED <<messages, engineVars, postPc, postArgs, postRes, getPc, getUser, postOut, implVars, restVars>>

\* GET lines 117-131: the translation for the viewer's language arrives.
GET_Translate(g, m) ==
  /\ getPc[g] = "running"
  /\ m \in DOMAIN getTask[g]
  /\ getTask[g][m].st = "translate"
  /\ \E v \in RouteTranslations(apiKey, messages[m].content, messages[m].sourceLanguage,
                                 PrimaryLanguage(getUser[g])) :
       getTask' = [getTask EXCEPT ![g][m] = [st |-> "push", value |-> v]]
  /\ UNCHANGED <<messages, engineVars, postPc, postArgs, postRes, getPc, getUser, postOut, implVars, restVars>>

\* GET lines 134-145: $push the translation, whatever the array holds by now.
GET_Push(g, m) ==
  /\ getPc[g] = "running"
  /\ m \in DOMAIN getTask[g]
  /\ getTask[g][m].st = "push"
  /\ messages' =
       IF Stored(m)
       THEN [messages EXCEPT ![m].translations =
               Append(@, [targetLanguage |-> PrimaryLanguage(getUser[g]),
                          translatedContent |-> getTask[g][m].value])]
       ELSE messages
  /\ getTask' = [getTask EXCEPT ![g][m].st = "done"]
  /\ UNCHANGED <<engineVars, postPc, postArgs, postRes, getPc, getUser, postOut, implVars, restVars>>

\* DELETE lines 313-317: deleteMany on the channel.
DELETE_Messages ==
  /\ \E m \in Messages : Stored(m)
  /\ messages' = [m \in Messages |->
       IF Stored(m) THEN DeletedDoc(messages[m]) ELSE messages[m]]
  /\ UNCHANGED <<engineVars, routeVars, implVars, restVars>>

\* ------------------------------------- MessageParser: masking and restoring

\* A text is a sequence of characters: "B" a backtick, "N" a newline, "S" a
\* space, "x" a word character.  A placeholder is one word of its own.
Fence == <<"B", "B", "B">>
Segments == {<<"x">>, <<"S">>, <<"N">>, Fence, <<"B", "x", "B">>, <<"B", "S", "x", "B">>}

RECURSIVE TextsOf(_)
TextsOf(n) ==
  IF n = 0 THEN {<<>>}
  ELSE LET shorter == TextsOf(n - 1)
       IN shorter \cup {t \o s : t \in shorter, s \in Segments}

Texts == TextsOf(MaxSegments)

Whitespace == {"S", "N"}
WordChars == {"x"}
CodeBlockPlaceholders == <<"__CODE_BLOCK_0__", "__CODE_BLOCK_1__", "__CODE_BLOCK_2__">>
InlineCodePlaceholders == <<"__INLINE_CODE_0__", "__INLINE_CODE_1__", "__INLINE_CODE_2__",
                            "__INLINE_CODE_3__", "__INLINE_CODE_4__">>

Least(S) == CHOOSE x \in S : \A y \in S : x <= y

\* String.prototype.indexOf, 1-based; 0 when pat does not occur.
IndexOf(s, pat) ==
  LET at == {i \in 1..(Len(s) - Len(pat) + 1) : SubSeq(s, i, i + Len(pat) - 1) = pat}
  IN IF at = {} THEN 0 ELSE Least(at)

\* String.prototype.replace(pat, rep) with a string pattern: the first
\* occurrence only.
StringReplace(s, pat, rep) ==
  LET i == IndexOf(s, pat)
  IN IF i = 0 THEN s
     ELSE SubSeq(s, 1, i - 1) \o rep \o SubSeq(s, i + Len(pat), Len(s))

\* The first position at or after i where a fence starts; 0 when none.
FindFence(s, i) ==
  LET at == {j \in i..(Len(s) - 2) : SubSeq(s, j, j + 2) = Fence}
  IN IF at = {} THEN 0 ELSE Least(at)

\* The end of the longest run of characters of cs that starts at i (i - 1
\* when the run is empty).
RunEnd(s, i, cs) ==
  LET stop == {j \in i..Len(s) : s[j] \notin cs}
  IN IF stop = {} THEN Len(s) ELSE Least(stop) - 1

\* String.prototype.trim
Trim(s) ==
  LET ink == {j \in 1..Len(s) : s[j] \notin Whitespace}
  IN IF ink = {} THEN <<>>
     ELSE SubSeq(s, Least(ink), CHOOSE j \in ink : \A k \in ink : k <= j)

\* extractCodeBlocks: the matches of /```(\w+)?\n?([\s\S]*?)```/g from
\* position i on; the code of a block is trimmed.
RECURSIVE extractCodeBlocks(_, _)
extractCodeBlocks(content, i) ==
  LET open == FindFence(content, i)
      langEnd == RunEnd(content, open + 3, WordChars)
      body == IF langEnd + 1 <= Len(content) /\ content[langEnd + 1] = "N"
              THEN langEnd + 2 ELSE langEnd + 1
      close == FindFence(content, body)
  IN IF open = 0 \/ close = 0 THEN <<>>
     ELSE <<[language |-> SubSeq(content, open + 3, langEnd),
             code |-> Trim(SubSeq(content, body, close - 1)),
             startIndex |-> open, endIndex |-> close + 2]>>
          \o extractCodeBlocks(content, close + 3)

\* content.replace(codeBlockRegex, ''): the content outside every block.
WithoutCodeBlocks(content, codeBlocks) ==
  LET keep == {j \in 1..Len(content) :
                 \A k \in 1..Len(codeBlocks) :
                   j < codeBlocks[k].startIndex \/ j > codeBlocks[k].endIndex}
      nth(n) == CHOOSE j \in keep : Cardinality({k \in keep : k <= j}) = n
  IN [n \in 1..Cardinality(keep) |-> content[nth(n)]]

\* extractInlineCode: the matches of /`([^`\n]+)`/g from position i on.
RECURSIVE extractInlineCode(_, _)
extractInlineCode(content, i) ==
  LET ticks == {j \in i..Len(content) : content[j] = "B"}
      open == Least(ticks)
      last == RunEnd(content, open + 1, {"x", "S"})
  IN IF ticks = {} THEN <<>>
     ELSE IF last > open /\ last < Len(content) /\ content[last + 1] = "B"
          THEN <<SubSeq(content, open + 1, last)>> \o extractInlineCode(content, last + 2)
          ELSE extractInlineCode(content, open + 1)

\* MessageParser.parse on a valid text.
parse(content) ==
  LET codeBlocks == extractCodeBlocks(content, 1)
  IN [content |-> content,
      hasCodeBlocks |-> Len(codeBlocks) > 0,
      codeBlocks |-> codeBlocks,
      inlineCodeSpans |-> extractInlineCode(WithoutCodeBlocks(content, codeBlocks), 1)]

\* getContentWithCodePlaceholders: block after block, the first occurrence
\* of the block's text becomes its placeholder.
RECURSIVE PlaceCodeBlocks(_, _, _)
PlaceCodeBlocks(content, parsedMessage, index) ==
  IF index > Len(parsedMessage.codeBlocks) THEN content
  ELSE LET block == parsedMessage.codeBlocks[index]
           originalBlock == SubSeq(parsedMessage.content, block.startIndex, block.endIndex)
       IN PlaceCodeBlocks(StringReplace(content, originalBlock, <<CodeBlockPlaceholders[index]>>),
                          parsedMessage, index + 1)

getContentWithCodePlaceholders(parsedMessage) ==
  IF ~parsedMessage.hasCodeBlocks THEN parsedMessage.content
  ELSE PlaceCodeBlocks(parsedMessage.content, parsedMessage, 1)

RECURSIVE PlaceInlineCode(_, _, _)
PlaceInlineCode(content, parsedMessage, index) ==
  IF index > Len(parsedMessage.inlineCodeSpans) THEN content
  ELSE PlaceInlineCode(StringReplace(content,
                                     <<"B">> \o parsedMessage.inlineCodeSpans[index] \o <<"B">>,
                                     <<InlineCodePlaceholders[index]>>),
                       parsedMessage, index + 1)

\* getTranslatableContent of a valid parse.
getTranslatableContent(parsedMessage) ==
  PlaceInlineCode(getContentWithCodePlaceholders(parsedMessage), parsedMessage, 1)

\* The block as restoreCodeBlocks writes it: fence, language, newline, the
\* trimmed code, fence.
RebuiltBlock(parsedMessage, block) ==
  Fence \o block.language \o <<"N">> \o block.code \o Fence

RECURSIVE RestoreBlocksFrom(_, _, _)
RestoreBlocksFrom(content, parsedMessage, index) ==
  IF index > Len(parsedMessage.codeBlocks) THEN content
  ELSE RestoreBlocksFrom(StringReplace(content, <<CodeBlockPlaceholders[index]>>,
                                       RebuiltBlock(parsedMessage, parsedMessage.codeBlocks[index])),
                         parsedMessage, index + 1)

restoreCodeBlocks(content, parsedMessage) ==
  IF ~parsedMessage.hasCodeBlocks THEN content
  ELSE RestoreBlocksFrom(content, parsedMessage, 1)

RECURSIVE RestoreInlineFrom(_, _, _)
RestoreInlineFrom(content, parsedMessage, index) ==
  IF index > Len(parsedMessage.inlineCodeSpans) THEN content
  ELSE RestoreInlineFrom(StringReplace(content, <<InlineCodePlaceholders[index]>>,
                                       <<"B">> \o parsedMessage.inlineCodeSpans[index] \o <<"B">>),
                         parsedMessage, index + 1)

restoreAllCode(content, parsedMessage) ==
  RestoreInlineFrom(restoreCodeBlocks(content, parsedMessage), parsedMessage, 1)

NoParse == [content |-> <<>>, hasCodeBlocks |-> FALSE, codeBlocks |-> <<>>,
            inlineCodeSpans |-> <<>>]

\* parseMessage(t) for a valid text t.
MP_Parse(t) ==
  /\ mpPc = "idle"
  /\ t # <<>>
  /\ mpPc' = "parsed"
  /\ mpParsed' = parse(t)
  /\ UNCHANGED <<mpMasked, mpRestored, coreVars, queryVars, reactionVars, convVars>>

\* getTranslatableContent(parsedMessage)
MP_Mask ==
  /\ mpPc = "parsed"
  /\ mpPc' = "masked"
  /\ mpMasked' = getTranslatableContent(mpParsed)
  /\ UNCHANGED <<mpParsed, mpRestored, coreVars, queryVars, reactionVars, convVars>>

\* restoreAllCode(masked, parsedMessage) on the unmodified masked text
MP_Restore ==
  /\ mpPc = "masked"
  /\ mpPc' = "restored"
  /\ mpRestored' = restoreAllCode(mpMasked, mpParsed)
  /\ UNCHANGED <<mpParsed, mpMasked, coreVars, queryVars, reactionVars, convVars>>

\* --------------------------------------- MongoMessageService: channel reads

\* The messages of one channel, all sent by u1; u2 reads along.
Limits == {1, 2, 200}
Viewers == {"u1", "u2"}
NoResult == [op |-> "none", userId |-> "", limit |-> 0, result |-> <<>>]

Smaller(a, b) == IF a <= b THEN a ELSE b

\* .sort({ timestamp: 1 }): ascending by timestamp.
RECURSIVE SortByTimestamp(_)
SortByTimestamp(docs) ==
  IF docs = {} THEN <<>>
  ELSE LET first == CHOOSE d \in docs : \A e \in docs : d.timestamp <= e.timestamp
       IN <<first>> \o SortByTimestamp(docs \ {first})

\* find({channelId}).sort({timestamp: 1}).limit(Math.min(limit, 100)).toArray()
FindChannelMessages(docs, limit) ==
  LET sorted == SortByTimestamp(docs)
  IN SubSeq(sorted, 1, Smaller(Smaller(limit, QUERY_CAP), Len(sorted)))

\* mapMongoMessageToMessage: the document's fields, every translation kept.
mapMongoMessageToMessage(doc) ==
  [id |-> doc.id, senderId |-> doc.senderId, timestamp |-> doc.timestamp,
   translations |-> [i \in 1..Len(doc.translations) |->
                       [targetLanguage |-> doc.translations[i].targetLanguage]]]

\* The message as getChannelMessagesForUser returns it: the first
\* translation in the user's language alone when there is one, the mapped
\* message as it is when there is none.
MessageForUser(doc, userLanguage) ==
  LET message == mapMongoMessageToMessage(doc)
      found == {i \in 1..Len(doc.translations) :
                  doc.translations[i].targetLanguage = userLanguage}
  IN IF found # {}
     THEN [message EXCEPT !.translations = <<[targetLanguage |-> userLanguage]>>]
     ELSE message

\* createMessage in the channel: timestamp: new Date()
CH_CreateMessage ==
  /\ Cardinality(chDocs) < MaxChannel
  /\ chDocs' = chDocs \cup {[id |-> Cardinality(chDocs) + 1,
                             timestamp |-> Cardinality(chDocs) + 1,
                             senderId |-> "u1", translations |-> <<>>]}
  /\ UNCHANGED <<qRet, coreVars, parserVars, reactionVars, convVars>>

\* $push of a translation into a message of the channel
CH_PushTranslation(d, L) ==
  /\ d \in chDocs
  /\ Len(d.translations) < MaxTranslations
  /\ chDocs' = (chDocs \ {d})
                 \cup {[d EXCEPT !.translations = Append(@, [targetLanguage |-> L])]}
  /\ UNCHANGED <<qRet, coreVars, parserVars, reactionVars, convVars>>

\* getChannelMessages(channelId, limit)
GetChannelMessages(limit) ==
  /\ qRet' = [op |-> "getChannelMessages", userId |-> "", limit |-> limit,
              result |-> LET found == FindChannelMessages(chDocs, limit)
                         IN [i \in 1..Len(found) |-> mapMongoMessageToMessage(found[i])]]
  /\ UNCHANGED <<chDocs, coreVars, parserVars, reactionVars, convVars>>

\* getChannelMessagesForUser(channelId, userId, limit)
GetChannelMessagesForUser(userId, limit) ==
  /\ qRet' = [op |-> "getChannelMessagesForUser", userId |-> userId, limit |-> limit,
              result |-> LET found == FindChannelMessages(chDocs, limit)
                         IN [i \in 1..Len(found) |->
                               MessageForUser(found[i], PrimaryLanguage(userId))]]
  /\ UNCHANGED <<chDocs, coreVars, parserVars, reactionVars, convVars>>

\* ------------------------------------------ POST /api/messages/reactions

RxRequests == 1..MaxReactionRequests
Emojis == {"like", "heart"}
NoReaction == "none"

\* The authenticated user of a request: the last request is u2's, the
\* others are u1's.
RxUser(q) == IF q = MaxReactionRequests THEN "u2" ELSE "u1"

ReactionsOf(reactions, userId) == SelectSeq(reactions, LAMBDA r : r.userId = userId)

\* existingReactions.find(r => r.userId === user.id): the emoji of the
\* first reaction of the user, if any.
UserExistingReaction(reactions, userId) ==
  IF ReactionsOf(reactions, userId) = <<>> THEN NoReaction
  ELSE ReactionsOf(reactions, userId)[1].emoji

\* $pull: { reactions: { userId } }
PullReactions(reactions, userId) == SelectSeq(reactions, LAMBDA r : r.userId # userId)

\* The mutant answers a repeated emoji like a different one.
ReactionAction_NoToggle(existing, emoji) ==
  IF existing # NoReaction THEN "replaced" ELSE "added"

\* The branch the handler takes, which is also the action it answers.
ReactionAction(existing, emoji) ==
  IF existing = emoji THEN "removed"
  ELSE IF existing # NoReaction THEN "replaced" ELSE "added"

\* findOne({_id: messageId}) and the look at the user's reactions
RX_Find(q, emoji) ==
  /\ rxPc[q] = "idle"
  /\ rxPc' = [rxPc EXCEPT ![q] = "found"]
  /\ rxEmoji' = [rxEmoji EXCEPT ![q] = emoji]
  /\ rxSeen' = [rxSeen EXCEPT ![q] = UserExistingReaction(rxReactions, RxUser(q))]
  /\ rxOut' = [rxOut EXCEPT ![q] = "none"]
  /\ UNCHANGED <<rxReactions, coreVars, parserVars, queryVars, convVars>>

\* the same emoji: $pull, answer `removed`
RX_Remove(q) ==
  /\ rxPc[q] = "found"
  /\ ReactionAction(rxSeen[q], rxEmoji[q]) = "removed"
  /\ rxReactions' = PullReactions(rxReactions, RxUser(q))
  /\ rxPc' = [rxPc EXCEPT ![q] = "idle"]
  /\ rxOut' = [rxOut EXCEPT ![q] = "removed"]
  /\ UNCHANGED <<rxEmoji, rxSeen, coreVars, parserVars, queryVars, convVars>>

\* a different emoji: first the $pull
RX_Pull(q) ==
  /\ rxPc[q] = "found"
  /\ ReactionAction(rxSeen[q], rxEmoji[q]) = "replaced"
  /\ rxReactions' = PullReactions(rxReactions, RxUser(q))
  /\ rxPc' = [rxPc EXCEPT ![q] = "pulled"]
  /\ UNCHANGED <<rxEmoji, rxSeen, rxOut, coreVars, parserVars, queryVars, convVars>>

\* then the $push, answer `replaced`
RX_Replace(q) ==
  /\ rxPc[q] = "pulled"
  /\ rxReactions' = Append(rxReactions, [userId |-> RxUser(q), emoji |-> rxEmoji[q]])
  /\ rxPc' = [rxPc EXCEPT ![q] = "idle"]
  /\ rxOut' = [rxOut EXCEPT ![q] = "replaced"]
  /\ UNCHANGED <<rxEmoji, rxSeen, coreVars, parserVars, queryVars, convVars>>

\* no reaction yet: $push, answer `added`
RX_Add(q) ==
  /\ rxPc[q] = "found"
  /\ ReactionAction(rxSeen[q], rxEmoji[q]) = "added"
  /\ rxReactions' = Append(rxReactions, [userId |-> RxUser(q), emoji |-> rxEmoji[q]])
  /\ rxPc' = [rxPc EXCEPT ![q] = "idle"]
  /\ rxOut' = [rxOut EXCEPT ![q] = "added"]
  /\ UNCHANGED <<rxEmoji, rxSeen, coreVars, parserVars, queryVars, convVars>>

\* ------------------------------------ MongoConversationService

ConvRequests == 1..MaxConvRequests
UserOrder == <<"u1", "u2", "u3">>
UserRank(u) == CHOOSE i \in 1..Len(UserOrder) : UserOrder[i] = u

\* [userId1, userId2].sort()
SortedParticipants(userId1, userId2) ==
  IF UserRank(userId1) <= UserRank(userId2) THEN <<userId1, userId2>>
  ELSE <<userId2, userId1>>

\* The documents that { participants: { $all: participants, $size: 2 } } matches.
Matching(docs, participants) ==
  {i \in 1..Len(docs) : {docs[i][1], docs[i][2]} = {participants[1], participants[2]}}

\* createConversation(userId1, userId2) up to the answer of findOne: an
\* existing thread is returned, otherwise the insert is still to come.
CC_Find(r, userId1, userId2) ==
  /\ ccPc[r] = "idle"
  /\ userId1 # userId2
  /\ ccArgs' = [ccArgs EXCEPT ![r] = SortedParticipants(userId1, userId2)]
  /\ ccPc' = [ccPc EXCEPT ![r] =
                IF Matching(conversations, SortedParticipants(userId1, userId2)) # {}
                THEN "returned" ELSE "inserting"]
  /\ UNCHANGED <<conversations, coreVars, parserVars, queryVars, reactionVars>>

\* insertOne({participants, ...})
CC_Insert(r) ==
  /\ ccPc[r] = "inserting"
  /\ conversations' = Append(conversations, ccArgs[r])
  /\ ccPc' = [ccPc EXCEPT ![r] = "returned"]
  /\ UNCHANGED <<ccArgs, coreVars, parserVars, queryVars, reactionVars>>

\* the request is over; the next one may come
CC_Return(r) ==
  /\ ccPc[r] = "returned"
  /\ ccPc' = [ccPc EXCEPT ![r] = "idle"]
  /\ UNCHANGED <<conversations, ccArgs, coreVars, parserVars, queryVars, reactionVars>>

\* ----------------------------------------------------------- specification

Init ==
  /\ messages = [m \in Messages |-> NoDoc]
  /\ cache = [k \in CacheKeys |-> NoValue]
  /\ apiKey \in BOOLEAN
  /\ lastIndex = 0
  /\ tmPc = [r \in Runs |-> "idle"]
  /\ tmArgs = [r \in Runs |-> NoArgs]
  /\ tmMsg = [r \in Runs |-> NoMsg]
  /\ tmRes = [r \in Runs |-> <<>>]
  /\ tmOutcome = [r \in Runs |-> "none"]
  /\ postPc = [p \in Posts |-> "idle"]
  /\ postArgs = [p \in Posts |-> NoPost]
  /\ postRes = [p \in Posts |-> <<>>]
  /\ getPc = [g \in Gets |-> "idle"]
  /\ getUser = [g \in Gets |-> ""]
  /\ getTask = [g \in Gets |-> <<>>]
  /\ postOut = [p \in Posts |-> "none"]
  /\ tcEntries = <<>>
  /\ tcStats = [hits |-> 0, misses |-> 0]
  /\ tcNow = 0
  /\ tcRet = [op |-> "none", key |-> 0, value |-> Null, how |-> ""]
  /\ mpPc = "idle"
  /\ mpParsed = NoParse
  /\ mpMasked = <<>>
  /\ mpRestored = <<>>
  /\ chDocs = {}
  /\ qRet = NoResult
  /\ rxReactions = <<>>
  /\ rxPc = [q \in RxRequests |-> "idle"]
  /\ rxEmoji = [q \in RxRequests |-> ""]
  /\ rxSeen = [q \in RxRequests |-> NoReaction]
  /\ rxOut = [q \in RxRequests |-> "none"]
  /\ conversations = <<>>
  /\ ccPc = [r \in ConvRequests |-> "idle"]
  /\ ccArgs = [r \in ConvRequests |-> <<>>]

Next ==
  \/ \E m \in Messages, c \in Contents, l \in SourceLanguages :
       CreateMessage(m, c, "u1", l)
  \/ \E m \in Messages, s \in MESSAGE_STATUS : UpdateMessageStatus(m, s)
  \/ \E m \in Messages : DeleteMessage(m)
  \/ ClearCache
  \/ \E r \in Runs, m \in Messages, t \in TargetLists : TM_Begin(r, m, t)
  \/ \E r \in Runs : TM_Load(r)
  \/ \E r \in Runs : TM_FanOut(r)
  \/ \E r \in Runs, L \in LanguageCodes : TM_Target(r, L)
  \/ \E r \in Runs : TM_Settle(r)
  \/ \E r \in Runs : TM_Catch(r)

Spec == Init /\ [][Next]_vars

\* translateMessage runs on the messages of this channel and of others, all
\* through the one engine and its one cache, which nothing clears.
SharedCacheNext ==
  \/ \E m \in Messages, c \in Contents, l \in SourceLanguages :
       CreateMessage(m, c, "u1", l)
  \/ \E r \in Runs, m \in Messages, t \in TargetLists : TM_Begin(r, m, t)
  \/ \E r \in Runs : TM_Load(r)
  \/ \E r \in Runs : TM_FanOut(r)
  \/ \E r \in Runs, L \in LanguageCodes : TM_Target(r, L)
  \/ \E r \in Runs : TM_Settle(r)
  \/ \E r \in Runs : TM_Catch(r)
  \/ \E c \in Contents, l \in SourceLanguages, L \in ValidLanguages(UNION TargetLists) :
       TM_Elsewhere(c, l, L)

SharedCacheSpec == Init /\ [][SharedCacheNext]_vars

\* The calls on one TranslationCacheImpl.
CacheNext ==
  \/ \E k \in TcKeys : TcGet(k)
  \/ \E k \in TcKeys, v \in TcValues : TcSet(k, v)
  \/ TcCleanup
  \/ \E k \in TcKeys : TcDelete(k)
  \/ TcClear
  \/ TcTick

CacheSpec == Init /\ [][CacheNext]_vars

\* The calls that write the Map, the bulk ones included.
CacheBulkNext ==
  \/ \E k \in TcKeys : TcSet(k, "v1")
  \/ \E pairs \in BulkMaps : TcSetMultiple(pairs)
  \/ \E pairs \in BulkMaps : TcWarmUp(pairs)
  \/ \E items \in ExportedData(tcNow) : TcImportData(items)
  \/ TcCleanup
  \/ \E k \in TcKeys : TcDelete(k)
  \/ TcTick

CacheBulkSpec == Init /\ [][CacheBulkNext]_vars

\* The requests of the /api/messages route.
RouteNext ==
  \/ \E p \in Posts, u \in Users, c \in Contents, l \in SourceLanguages, f \in BOOLEAN :
       POST_Create(p, u, c, l, f)
  \/ \E p \in Posts, L \in SUPPORTED_LANGUAGES : POST_Translate(p, L)
  \/ \E p \in Posts : POST_Store(p)
  \/ \E g \in Gets, u \in Users : GET_Fetch(g, u)
  \/ \E g \in Gets, m \in Messages : GET_Check(g, m)
  \/ \E g \in Gets, m \in Messages : GET_Translate(g, m)
  \/ \E g \in Gets, m \in Messages : GET_Push(g, m)
  \/ DELETE_Messages

RouteSpec == Init /\ [][RouteNext]_vars

\* A handler that has started runs on: each await of a request in flight
\* resolves.  Nothing obliges a client to send a request.
FairRouteSpec ==
  /\ Init /\ [][RouteNext]_vars
  /\ \A p \in Posts :
       WF_vars((\E L \in SUPPORTED_LANGUAGES : POST_Translate(p, L)) \/ POST_Store(p))
  /\ \A g \in Gets :
       WF_vars(\E m \in Messages : GET_Check(g, m) \/ GET_Translate(g, m) \/ GET_Push(g, m))

\* The parser alone: a text is parsed, masked and restored.
ParserNext ==
  \/ \E t \in Texts : MP_Parse(t)
  \/ MP_Mask
  \/ MP_Restore

ParserSpec == Init /\ [][ParserNext]_vars

\* One channel: messages arrive, translations are pushed, the channel is read.
ChannelNext ==
  \/ CH_CreateMessage
  \/ \E d \in chDocs, L \in {"es", "fr"} : CH_PushTranslation(d, L)
  \/ \E limit \in Limits : GetChannelMessages(limit)
  \/ \E u \in Viewers, limit \in Limits : GetChannelMessagesForUser(u, limit)

ChannelSpec == Init /\ [][ChannelNext]_vars

\* One message: reaction requests of two users, u1's concurrent.
ReactionNext ==
  \/ \E q \in RxRequests, e \in Emojis : RX_Find(q, e)
  \/ \E q \in RxRequests : RX_Remove(q) \/ RX_Pull(q) \/ RX_Replace(q) \/ RX_Add(q)

ReactionSpec == Init /\ [][ReactionNext]_vars

\* Concurrent createConversation calls.
ConversationNext ==
  \/ \E r \in ConvRequests, a \in Users, b \in Users : CC_Find(r, a, b)
  \/ \E r \in ConvRequests : CC_Insert(r) \/ CC_Return(r)

ConversationSpec == Init /\ [][ConversationNext]_vars

\* ------------------------------------------------- the translateMessage claims

\* The targets of run r for which the external translator was called.
Called(r) ==
  {L \in DOMAIN tmRes[r] :
     /\ tmRes[r][L].st \in {"ok", "err"}
     /\ ~tmRes[r][L].fromCache
     /\ apiKey
     /\ tmMsg[r].sourceLanguage # L}

Succeeded(r) == {L \in DOMAIN tmRes[r] : tmRes[r][L].st = "ok"}
Erred(r) == {L \in DOMAIN tmRes[r] : tmRes[r][L].st = "err"}
Finishes(r) == tmPc[r] # "done" /\ tmPc'[r] = "done"
StaysStored(m) == Stored(m) /\ messages'[m].doc = "stored"

\* C1: every change of a stored message's status is sent->translating,
\* translating->translated or translating->failed; in particular the status
\* never returns to sent.
C1_StatusMonotone ==
  [][\A m \in Messages :
       (StaysStored(m) /\ messages'[m].status # messages[m].status)
         => <<messages[m].status, messages'[m].status>> \in
              {<<"sent", "translating">>, <<"translating", "translated">>,
               <<"translating", "failed">>}]_vars

\* C2: when a run on a stored message with at least one supported target ends
\* with every target failed, the message's status after the run is failed.
C2_AllFailedIsFailed ==
  [][\A r \in Runs :
       (/\ Finishes(r)
        /\ tmOutcome[r] = "TranslationError"
        /\ Succeeded(r) = {} /\ Erred(r) # {}
        /\ StaysStored(tmArgs[r].messageId))
         => messages'[tmArgs[r].messageId].status = "failed"]_vars

\* C3: a run in which at least one target succeeded (the others failed)
\* completes without raising an error, and the status it leaves is translated.
C3_PartialSuccessTranslated ==
  [][\A r \in Runs :
       (/\ tmPc[r] = "targets" /\ tmPc'[r] # "targets"
        /\ Succeeded(r) # {})
         => /\ tmPc'[r] = "done"
            /\ tmOutcome'[r] = "ok"
            /\ StaysStored(tmArgs[r].messageId)
                 => messages'[tmArgs[r].messageId].status = "translated"]_vars

\* C3 witness: a completed run with one target succeeded and one failed, that
\* resolved normally and left the message translated.
C3_Witness ==
  \E r \in Runs :
    /\ tmPc[r] = "done" /\ tmOutcome[r] = "ok"
    /\ Succeeded(r) # {} /\ Erred(r) # {}
    /\ Stored(tmArgs[r].messageId)
    /\ messages[tmArgs[r].messageId].status = "translated"

\* A run on a stored message none of whose target languages is supported.
NoTargetRun(r) ==
  /\ ValidLanguages(tmArgs[r].targetLanguages) = {}
  /\ StaysStored(tmArgs[r].messageId)

C5_NotSentIsNoOp ==
  [][\A r \in Runs :
       (tmPc[r] = "idle" /\ tmPc'[r] # "idle")
         => LET m == tmArgs'[r].messageId
            IN (Stored(m) /\ messages[m].status # "sent")
                 => messages'[m].status = messages[m].status]_vars

\* C6: of two runs for the same message that are in progress together, at
\* most one calls the external translator for a given target language.
C6_OverlapCollapsed ==
  \A r1, r2 \in Runs :
    (/\ r1 # r2 /\ Active(r1) /\ Active(r2)
     /\ tmArgs[r1].messageId = tmArgs[r2].messageId)
      => Called(r1) \cap Called(r2) = {}

\* C9: after a run has completed, every target that succeeded has a stored
\* Translation with that target language and the text produced for it.
C9_SucceededStored ==
  \A r \in Runs :
    (tmPc[r] = "done" /\ tmOutcome[r] = "ok" /\ Stored(tmArgs[r].messageId))
      => \A L \in Succeeded(r) :
           \E i \in DOMAIN messages[tmArgs[r].messageId].translations :
             LET t == messages[tmArgs[r].messageId].translations[i]
             IN t.targetLanguage = L /\ t.translatedContent = tmRes[r][L].translation

\* ------------------------------------------------------- the route claims

\* C7: a message's stored translations hold at most one entry per
\* targetLanguage.
C7_UniqueTargets ==
  \A m \in Messages :
    \A i, j \in DOMAIN messages[m].translations :
      messages[m].translations[i].targetLanguage = messages[m].translations[j].targetLanguage
        => i = j

\* C8: a stored Translation stays: while the message is stored, every later
\* state holds a Translation for that target with the same content.
C8_TranslationsAppendOnly ==
  [][\A m \in Messages :
       StaysStored(m) =>
         \A i \in DOMAIN messages[m].translations :
           \E j \in DOMAIN messages'[m].translations :
             messages'[m].translations[j] = messages[m].translations[i]]_vars

\* C10: no stored Translation has the message's sourceLanguage as its
\* targetLanguage.
C10_NoSourceTarget ==
  \A m \in Messages :
    \A i \in DOMAIN messages[m].translations :
      messages[m].translations[i].targetLanguage # messages[m].sourceLanguage

\* C11: a POST /messages some or all of whose targets failed to translate
\* leaves the message it created stored with its content, and answers with
\* the created message.
C11_PostKeepsMessage ==
  [][\A p \in Posts :
       (postPc[p] = "translating" /\ <<postPc[p], postRes[p]>>' # <<postPc[p], postRes[p]>>)
         => LET m == postArgs[p].messageId
            IN /\ messages'[m].doc = messages[m].doc
               /\ messages'[m].content = messages[m].content
               /\ (postPc'[p] = "done" /\ FailedTargets(postRes[p]) # {})
                    => postOut'[p] = "message"]_vars

\* C11 witness: a finished POST with a failed target, its message stored with
\* the content posted, answered with the message.
C11_Witness ==
  \E p \in Posts :
    /\ postPc[p] = "done" /\ postOut[p] = "message"
    /\ FailedTargets(postRes[p]) # {}
    /\ Stored(postArgs[p].messageId)
    /\ messages[postArgs[p].messageId].content \in Contents

\* C12: no Translation stored for a target other than the message's own
\* language holds the original text or the original text behind a language
\* tag.
C12_NoFabricatedTranslation ==
  \A m \in Messages :
    \A i \in DOMAIN messages[m].translations :
      LET t == messages[m].translations[i]
      IN t.targetLanguage # messages[m].sourceLanguage
           => t.translatedContent[1] \notin {"original", "tagged"}

\* ------------------------------------------------------- the cache claims

\* C15: what translateMessage takes from the cache for a target is a text the
\* same run produces for that message and target when every get returns
\* null, so that status, per-target results and texts are the same with and
\* without the cache.
C15_CacheAdvisory ==
  \A r \in Runs :
    \A L \in DOMAIN tmRes[r] :
      tmRes[r][L].fromCache
        => tmRes[r][L].translation \in
             TranslateTextOutcomes(apiKey, tmMsg[r].content, tmMsg[r].sourceLanguage, L)
               \ {Thrown}

\* The targets for which run r obtained a text from the external translator.
Obtained(r) == {L \in Called(r) : tmRes[r][L].st = "ok"}

\* C16: while nothing leaves the cache, two runs on the same content never
\* both obtain the translation for the same target from the external
\* translator.
C16_OneExternalCall ==
  \A r1, r2 \in Runs :
    (/\ r1 # r2 /\ tmMsg[r1].found /\ tmMsg[r2].found
     /\ normalizeContent(tmMsg[r1].content) = normalizeContent(tmMsg[r2].content))
      => Obtained(r1) \cap Obtained(r2) = {}

\* ----------------------------------------------- the TranslationCache claims

\* The step is a get(k): every get counts a hit or a miss.
IsGetStep(k) == tcRet'.op = "get" /\ tcRet'.key = k /\ tcStats' # tcStats

\* The step is a set: the clock and the statistics stand still.
IsSetStep ==
  /\ tcRet'.op = "set" /\ tcNow' = tcNow /\ tcStats' = tcStats
  /\ <<tcEntries, tcRet>>' # <<tcEntries, tcRet>>

\* C13: a get returns a value only from an entry whose most recent set is at
\* most ttl old, however often it was read since; otherwise it returns null.
C13_NoExpiredRead ==
  [][\A k \in TcKeys :
       (IsGetStep(k) /\ tcRet'.value # Null)
         => LET i == TcIndex(tcEntries, k)
            IN /\ i # 0
               /\ tcNow - tcEntries[i].timestamp <= ttl
               /\ tcRet'.value = tcEntries[i].value]_vars

\* C13 witness: after earlier hits, a get found its entry expired and
\* returned null.
C13_Witness ==
  /\ tcRet.op = "get" /\ tcRet.how = "expired" /\ tcRet.value = Null
  /\ tcStats.hits >= 1
  /\ tcRet.key \notin TcKeySet(tcEntries)

\* C14: a set removes another entry only when the cache holds maxEntries
\* entries and the key is not among them; it then removes exactly one, and
\* none of the entries held had a smaller lastAccessed.
C14_EvictsLeastRecentlyAccessed ==
  [][IsSetStep =>
       LET removed == TcKeySet(tcEntries) \ TcKeySet(tcEntries')
           full == Len(tcEntries) >= maxEntries /\ tcRet'.key \notin TcKeySet(tcEntries)
       IN /\ removed # {} => full
          /\ full =>
               /\ Cardinality(removed) = 1
               /\ \A k \in removed : \A j \in DOMAIN tcEntries :
                    tcEntries[TcIndex(tcEntries, k)].lastAccessed <= tcEntries[j].lastAccessed]_vars

\* C14 witness: a set evicted an entry and kept one that was inserted
\* earlier but read later.
C14_Witness ==
  /\ tcRet.op = "set" /\ tcRet.how = "evicted"
  /\ Len(tcEntries) = maxEntries
  /\ \E i \in DOMAIN tcEntries :
       /\ tcEntries[i].key # tcRet.key
       /\ tcEntries[i].lastAccessed > tcEntries[i].timestamp

TextReturns(r, L) ==
  /\ L \in DOMAIN tmRes[r] /\ L \in DOMAIN tmRes'[r]
  /\ tmRes[r][L].st = "calling" /\ tmRes'[r][L].st # "calling"

\* C18: translateText with the target language equal to the source language
\* returns the text as it is, whether or not an API key is configured.
C18_SameLanguageVerbatim ==
  [][\A r \in Runs : \A L \in LanguageCodes :
       (TextReturns(r, L) /\ L = tmMsg[r].sourceLanguage)
         => tmRes'[r][L] = Fresh(Original(tmMsg[r].content))]_vars

\* C19: a direct updateMessageStatus call changes the stored status only
\* along sent->translating, translating->translated or translating->failed.
C19_UpdateRejectsIllegal ==
  [][\A m \in Messages :
       (StaysStored(m) /\ tmPc' = tmPc /\ messages'[m].status # messages[m].status)
         => \/ messages[m].status = "sent" /\ messages'[m].status = "translating"
            \/ /\ messages[m].status = "translating"
               /\ messages'[m].status \in {"translated", "failed"}]_vars

\* C20: a translateText call that reached the external service throws only
\* after MAX_RETRIES attempts.
C20_ThreeAttempts ==
  [][\A r \in Runs : \A L \in LanguageCodes :
       (/\ TextReturns(r, L) /\ tmRes'[r][L].st = "err"
        /\ apiKey /\ L # tmMsg[r].sourceLanguage)
         => ExternalAttempts(apiKey, tmMsg[r].sourceLanguage, L) = MAX_RETRIES]_vars

\* ------------------------------------------------- content validation

\* C21: no message created by POST /messages holds a forbidden pattern or is
\* longer than maxLength: such a post is rejected and stores nothing.
C21_PostRejectsInvalidContent ==
  \A p \in Posts :
    (postPc[p] # "idle" /\ Stored(postArgs[p].messageId))
      => LET content == messages[postArgs[p].messageId].content
         IN ForbiddenMatchEnd(content) = 0 /\ ContentLength(content) <= maxLength

\* C22: every parse of a content that holds a forbidden pattern reports it
\* invalid, whatever the parser has processed before: the run that parsed it
\* ends in a ValidationError.
C22_ForbiddenAlwaysInvalid ==
  [][\A r \in Runs :
       (/\ tmPc[r] = "fanout" /\ tmPc'[r] # "fanout"
        /\ ForbiddenMatchEnd(tmMsg[r].content) > 0)
         => tmPc'[r] = "catch" /\ tmOutcome'[r] = "ValidationError"]_vars

\* ------------------------------------------------- masking and restoring

\* C23: for every valid text, masking it and restoring the code into the
\* unmodified masked text yields exactly the text.
C23_MaskRestoreRoundTrip ==
  mpPc = "restored" => mpRestored = mpParsed.content

\* ------------------------------------------------------- the channel reads

\* C24: for a channel holding more than min(limit, 100) messages,
\* getChannelMessages returns exactly the min(limit, 100) messages with the
\* latest timestamps, in ascending timestamp order.
C24_LatestInOrder ==
  [][(/\ qRet' # qRet /\ qRet'.op = "getChannelMessages"
      /\ Cardinality(chDocs) > Smaller(qRet'.limit, QUERY_CAP))
       => LET n == Smaller(qRet'.limit, QUERY_CAP)
              result == qRet'.result
          IN /\ Len(result) = n
             /\ \A i \in 1..(n - 1) : result[i].timestamp < result[i + 1].timestamp
             /\ \A d \in chDocs :
                  (\E i \in 1..n : result[i].id = d.id)
                    \/ (\A i \in 1..n : d.timestamp < result[i].timestamp)]_vars

\* C25: for a viewer who is not the sender, every message returned by
\* getChannelMessagesForUser carries only translations into the viewer's
\* primaryLanguage, and none when there is no such translation.
C25_OnlyViewerLanguage ==
  [][(qRet' # qRet /\ qRet'.op = "getChannelMessagesForUser")
       => \A i \in 1..Len(qRet'.result) :
            qRet'.result[i].senderId # qRet'.userId
              => \A k \in 1..Len(qRet'.result[i].translations) :
                   qRet'.result[i].translations[k].targetLanguage
                     = PrimaryLanguage(qRet'.userId)]_vars

\* ---------------------------------------------- reactions and conversations

\* C26: the message holds at most one reaction by a user, concurrent
\* requests of that user included.
C26_OneReactionPerUser ==
  \A u \in Users : Len(ReactionsOf(rxReactions, u)) <= 1

\* C27: the conversations collection holds at most one thread per unordered
\* pair of users, concurrent createConversation(a, b) and (b, a) included.
C27_OneThreadPerPair ==
  \A a \in Users, b \in Users :
    Cardinality(Matching(conversations, <<a, b>>)) <= 1

\* A request whose user has no other request.
Alone(q) == \A o \in RxRequests \ {q} : RxUser(o) # RxUser(q)

\* C28: a reaction request with no concurrent request of the same user: no
\* reaction before, the message ends with exactly the emoji and the answer is
\* `added`; a different emoji before, it ends with exactly the new emoji and
\* the answer is `replaced`; the same emoji before, it ends with no reaction
\* of the user and the answer is `removed`.
C28_ToggleSemantics ==
  [][\A q \in RxRequests :
       (Alone(q) /\ rxPc[q] # "idle" /\ rxPc'[q] = "idle")
         => LET mine == ReactionsOf(rxReactions', RxUser(q))
                only == <<[userId |-> RxUser(q), emoji |-> rxEmoji[q]]>>
            IN /\ rxSeen[q] = NoReaction => mine = only /\ rxOut'[q] = "added"
               /\ rxSeen[q] \notin {NoReaction, rxEmoji[q]}
                    => mine = only /\ rxOut'[q] = "replaced"
               /\ rxSeen[q] = rxEmoji[q] => mine = <<>> /\ rxOut'[q] = "removed"]_vars

\* u2 has added, replaced and then removed a reaction.
C28_Witness ==
  \E q \in RxRequests :
    /\ Alone(q) /\ rxPc[q] = "idle" /\ rxOut[q] = "removed"
    /\ ReactionsOf(rxReactions, RxUser(q)) = <<>>

\* ------------------------------------------------------ the end of a post

\* C29: a message accepted by POST /messages, once the translation work of
\* the request has finished, eventually has status translated or failed
\* (or is deleted): it does not stay sent or translating forever.
C29_PostedEventuallySettled ==
  \A p \in Posts :
    (postPc[p] = "done")
      ~> (/\ postArgs[p].messageId \in Messages
          /\ \/ ~Stored(postArgs[p].messageId)
             \/ messages[postArgs[p].messageId].status \in {"translated", "failed"})

\* ------------------------------------------------------ the cache's bound

\* C30: after every completed set, setMultiple, warmUp, importData, cleanup
\* and delete the cache holds at most maxEntries entries.
C30_AtMostMaxEntries ==
  Len(tcEntries) <= maxEntries

====
